---- MODULE Spec2Model ----
(***************************************************************************)
(* A model of cannellonipy.py: the FramesQueue ring buffer, the Cannelloni *)
(* wire codec (transmit_udp_packets encodes, handle_cannelloni_frame       *)
(* decodes) and the service threads that run_cannellonipy starts.          *)
(*                                                                         *)
(* Python values are modelled as follows.  A bytes/bytearray object is a   *)
(* sequence of 0..255.  A CanfdFrame is a record [can_id, len, flags,      *)
(* data].  None is the record [none |-> TRUE].  A list indexed from 0 is a *)
(* sequence indexed from 1, so frames[i] of the source is frames[i + 1].   *)
(* can_id values stay below 2^31 (the model checker's integers).           *)
(***************************************************************************)
EXTENDS Integers, Sequences, FiniteSets, TLC

VARIABLES
    tx_queue,         \* handle.tx_queue: [head, tail, count, frames]
    rx_queue,         \* handle.rx_queue: [head, tail, count, frames]
    sequence_number,  \* handle.sequence_number
    udp_rx_count,     \* handle.udp_rx_count
    udp_pcb,          \* handle.udp_pcb: "None", "bound" or "unbound"
    pc,               \* where each service thread is
    can_in,           \* frames the application will still offer to tx_queue
    net,              \* datagrams waiting in the UDP socket's receive buffer
    sent,             \* history: one entry per sendto call
    rx_log,           \* history: one entry per datagram returned by recvfrom
    qlog,             \* history: one entry per direct call of a queue method
    prod,             \* the thread inside FramesQueue.put (step by step)
    cons              \* the thread inside FramesQueue.take (step by step)

vars == <<tx_queue, rx_queue, sequence_number, udp_rx_count, udp_pcb, pc,
          can_in, net, sent, rx_log, qlog, prod, cons>>

-----------------------------------------------------------------------------
(* Constants of the source *)

CANNELLONI_FRAME_VERSION == 2
OPCODE == 1
CANFD_FRAME == 128
CANNELLONI_DATA_PACKET_BASE_SIZE == 4
CANNELLONI_FRAME_BASE_SIZE == 5
CAN_RTR_FLAG == 1073741824
FRAME_DATA_SIZE == 8
SEQ_MODULUS == 256

(* Bounds of the model *)

MaxCount == 3
MaxRecv == 1
MaxRecover == 2
MaxOffer == 2
MaxSends == 257
BurstFrames == 10
BurstCount == 4
MaxPolls == 2

None == [none |-> TRUE]

Min(a, b) == IF a < b THEN a ELSE b

Zeros(n) == [i \in 1..n |-> 0]

-----------------------------------------------------------------------------
(* class CanfdFrame *)

CanfdFrame == [can_id |-> 0, len |-> 0, flags |-> 0, data |-> Zeros(FRAME_DATA_SIZE)]

-----------------------------------------------------------------------------
(* class FramesQueue *)

FramesQueue(count) ==
    [head |-> 0, tail |-> 0, count |-> count, frames |-> [i \in 1..count |-> CanfdFrame]]

\* the increment without the wrap-around
NextIndex_mutant(x, count) == x + 1

\* (x + 1) % self.count
NextIndex(x, count) == (x + 1) % count

\* a plausible slip in line 33: the full test compares with tail, not head
put_full_mutant(q) == NextIndex(q.tail, q.count) = q.tail

\* line 33: (self.tail + 1) % self.count == self.head
put_full(q) == NextIndex(q.tail, q.count) = q.head

\* line 33 raises ZeroDivisionError when the queue was built with count 0
put_raises(q) == q.count = 0

\* FramesQueue.put, for a queue with count > 0
put(q, frame) ==
    IF put_full(q)
    THEN [q |-> q, ret |-> None]
    ELSE [q |-> [q EXCEPT !.frames[q.tail + 1] = frame,
                          !.tail = NextIndex(q.tail, q.count)],
          ret |-> frame]

\* line 40 / line 47: self.head == self.tail
is_empty(q) == q.head = q.tail

\* a peek that removes what it returns
peek_mutant(q) ==
    IF is_empty(q)
    THEN [q |-> q, ret |-> None]
    ELSE [q |-> [q EXCEPT !.head = NextIndex(q.head, q.count)],
          ret |-> q.frames[q.head + 1]]

\* FramesQueue.peek
peek(q) ==
    IF is_empty(q)
    THEN [q |-> q, ret |-> None]
    ELSE [q |-> q, ret |-> q.frames[q.head + 1]]

\* a take that forgets line 43 and leaves head where it was
take_mutant(q) == peek(q)

\* FramesQueue.take (no arithmetic is reached when the queue is empty)
take(q) ==
    IF is_empty(q)
    THEN [q |-> q, ret |-> None]
    ELSE [q |-> [q EXCEPT !.head = NextIndex(q.head, q.count)],
          ret |-> q.frames[q.head + 1]]

-----------------------------------------------------------------------------
(* bytes, struct and the bit operators *)

\* data[a:b] of Python, for 0 <= a and 0 <= b
Slice(data, a, b) == SubSeq(data, a + 1, Min(b, Len(data)))

\* target[:n] = source, for a bytearray target: the first n bytes (those there
\* are) are replaced by the whole of source, whatever its length
SliceAssign(target, n, source) == source \o Slice(target, n, Len(target))

RECURSIVE BitAnd(_, _)
\* a & b, for a >= 0 and b >= 0
BitAnd(a, b) ==
    IF a = 0 \/ b = 0
    THEN 0
    ELSE (a % 2) * (b % 2) + 2 * BitAnd(a \div 2, b \div 2)

\* a | b, for a >= 0 and b >= 0
BitOr(a, b) == a + b - BitAnd(a, b)

\* a & ~m, for a >= 0 and m >= 0
BitAndNot(a, m) == a - BitAnd(a, m)

\* struct.pack('!I', v): four bytes, most significant first
pack_I(v) == <<(v \div 16777216) % 256, (v \div 65536) % 256, (v \div 256) % 256, v % 256>>

\* struct.unpack('!I', b)
unpack_I(b) == b[1] * 16777216 + b[2] * 65536 + b[3] * 256 + b[4]

\* struct.pack('!B', v) raises struct.error unless 0 <= v <= 255
pack_B_raises(v) == v < 0 \/ v > 255

-----------------------------------------------------------------------------
(* transmit_udp_packets: the datagram built from one frame, lines 179-182 *)

\* line 185 without the wrap-around
next_sequence_number_mutant(s) == s + 1

\* line 185: (handle.sequence_number + 1) % 256
next_sequence_number(s) == (s + 1) % SEQ_MODULUS

\* lines 180-181: struct.pack raises when a byte field is out of range
encode_raises(frame, seq) ==
    \/ pack_B_raises(seq)
    \/ pack_B_raises(BitOr(frame.len, frame.flags))

\* lines 179-182
encode(frame, seq) ==
    <<CANNELLONI_FRAME_VERSION, OPCODE, seq, 1>>
        \o pack_I(frame.can_id)
        \o <<BitOr(frame.len, frame.flags)>>
        \o Slice(frame.data, 0, frame.len)

-----------------------------------------------------------------------------
(* CannelloniHandle.handle_cannelloni_frame *)

\* a header test that forgets the operation code
header_invalid_mutant(version, op_code) == version # CANNELLONI_FRAME_VERSION

\* line 81
header_invalid(version, op_code) ==
    version # CANNELLONI_FRAME_VERSION \/ op_code # OPCODE

\* line 100: (can_frame.can_id & CAN_RTR_FLAG) == 0
not_rtr(can_id) == BitAnd(can_id, CAN_RTR_FLAG) = 0

\* lines 94-101: the frame built from the sub-header at data[pos:pos+5]; the
\* payload is read at pos + 5 after pos has already been moved past the
\* sub-header (line 96), that is 10 bytes after the sub-header began
unpack_frame(data, pos) ==
    LET can_id == unpack_I(Slice(data, pos, pos + 4))
        len_byte == data[pos + 4 + 1]
        pos2 == pos + 5
        length == BitAndNot(len_byte, CANFD_FRAME)
        flags == BitAnd(len_byte, CANFD_FRAME)
    IN  [can_id |-> can_id,
         len |-> length,
         flags |-> flags,
         data |-> IF not_rtr(can_id)
                  THEN SliceAssign(Zeros(FRAME_DATA_SIZE), length,
                                   Slice(data, pos2 + 5, pos2 + 5 + length))
                  ELSE Zeros(FRAME_DATA_SIZE)]

RECURSIVE frame_loop(_, _, _, _)
\* lines 88-103: the for loop, k iterations left, st what it has done so far:
\* the queue, the frames passed to put, whether each was stored, an exception
frame_loop(data, pos, k, st) ==
    IF k = 0 \/ st.exc # "none"
    THEN st
    ELSE IF pos + CANNELLONI_FRAME_BASE_SIZE > Len(data)
    THEN st
    ELSE IF put_raises(st.q)
    THEN [st EXCEPT !.exc = "ZeroDivisionError"]
    ELSE LET frame == unpack_frame(data, pos)
             r == put(st.q, frame)
         IN  frame_loop(data, pos + 5, k - 1,
                        [q |-> r.q,
                         frames |-> Append(st.frames, frame),
                         stored |-> Append(st.stored, r.ret # None),
                         exc |-> "none"])

\* an except clause that names struct.error only, as the inner one does
caught_mutant(exc) == exc = "struct.error"

\* line 107: except Exception
caught(exc) == exc \in {"struct.error", "ZeroDivisionError"}

\* the whole method: what it leaves in the handle and what it did
handle_cannelloni_frame(queue, rx_count, data) ==
    LET returned(outcome) ==
            [rx_queue |-> queue, udp_rx_count |-> rx_count, outcome |-> outcome,
             seq_no |-> 0, count |-> 0, frames |-> <<>>, stored |-> <<>>,
             raised |-> FALSE]
    IN  IF Len(data) < CANNELLONI_DATA_PACKET_BASE_SIZE
        THEN returned("incomplete")                          \* lines 71-73
        ELSE LET version == data[1]                          \* line 76
                 op_code == data[2]
                 seq_no == data[3]
                 count == data[4]
             IN  IF header_invalid(version, op_code)
                 THEN returned("invalid")                    \* lines 81-83
                 ELSE LET st == frame_loop(data, CANNELLONI_DATA_PACKET_BASE_SIZE, count,
                                           [q |-> queue, frames |-> <<>>,
                                            stored |-> <<>>, exc |-> "none"])
                      IN  [rx_queue |-> st.q,
                           udp_rx_count |-> rx_count + 1,    \* line 86
                           outcome |-> IF st.exc = "none" THEN "decoded" ELSE st.exc,
                           seq_no |-> seq_no,
                           count |-> count,
                           frames |-> st.frames,
                           stored |-> st.stored,
                           raised |-> st.exc # "none" /\ ~caught(st.exc)]

-----------------------------------------------------------------------------
(* Direct calls of the queue methods, one whole call per step *)

MaxOps == MaxCount + 3

\* the frames a caller of put passes in this scenario
QueueItems == {[CanfdFrame EXCEPT !.can_id = i] : i \in 1..2}

Threads == {"receive_can_frames", "transmit_can_frames",
            "receive_udp_packets", "transmit_udp_packets"}

IdleThread == [pc |-> "idle"]

\* CannelloniHandle.__init__ with can_buf_size = count
Constructed(count) ==
    /\ tx_queue = FramesQueue(count)
    /\ rx_queue = FramesQueue(count)
    /\ sequence_number = 0
    /\ udp_rx_count = 0
    /\ net = <<>>
    /\ sent = <<>>
    /\ rx_log = <<>>
    /\ qlog = <<>>
    /\ prod = IdleThread
    /\ cons = IdleThread

\* the handle before run_cannellonipy is called
InitHandle(count) ==
    /\ Constructed(count)
    /\ udp_pcb = "None"
    /\ pc = [t \in Threads \cup {"run_cannellonipy"} |-> "not_started"]

\* the handle once run_cannellonipy has opened the socket and started the
\* threads, and the two threads whose body is pass have returned
InitRunning(count) ==
    /\ Constructed(count)
    /\ udp_pcb = "bound"
    /\ pc = [t \in Threads \cup {"run_cannellonipy"} |->
               IF t \in {"receive_udp_packets", "transmit_udp_packets"}
               THEN "running" ELSE "returned"]

InitQueue ==
    /\ \E n \in 1..MaxCount : InitHandle(n)
    /\ can_in = <<>>

QueueCall(op, arg, r) ==
    /\ Len(qlog) < MaxOps
    /\ qlog' = Append(qlog, [op |-> op, arg |-> arg, ret |-> r.ret, pre |-> tx_queue])
    /\ tx_queue' = r.q
    /\ UNCHANGED <<rx_queue, sequence_number, udp_rx_count, udp_pcb, pc,
                   can_in, net, sent, rx_log, prod, cons>>

QueuePut(frame) == QueueCall("put", frame, put(tx_queue, frame))

QueueTake == QueueCall("take", None, take(tx_queue))

QueuePeek == QueueCall("peek", None, peek(tx_queue))

NextQueue ==
    \/ \E frame \in QueueItems : QueuePut(frame)
    \/ QueueTake
    \/ QueuePeek

SpecQueue == InitQueue /\ [][NextQueue]_vars

-----------------------------------------------------------------------------
(* Claims about the queue *)

\* the queue as it was after the k-th logged call
QueueAfter(k) == IF k = Len(qlog) THEN tx_queue ELSE qlog[k + 1].pre

OnlyPuts(k) == \A i \in 1..k : qlog[i].op = "put"

\* C2: Queue capacity.  Starting from the empty queue of capacity N, the first
\* N-1 consecutive puts succeed; the N-th put returns None and leaves head,
\* tail and every slot as they were; and when a take removes an item from a
\* full queue, the next put succeeds and the one after it fails.
C2_QueueCapacity ==
    LET N == tx_queue.count IN
    /\ \A k \in 1..Len(qlog) :
          OnlyPuts(k) =>
            /\ k <= N - 1 => qlog[k].ret = qlog[k].arg
            /\ k = N => qlog[k].ret = None /\ QueueAfter(k) = qlog[k].pre
    /\ \A i \in 1..Len(qlog) :
          ( /\ qlog[i].op = "take"
            /\ qlog[i].ret # None
            /\ (qlog[i].pre.tail + 1) % N = qlog[i].pre.head ) =>
            /\ (i + 1 <= Len(qlog) /\ qlog[i + 1].op = "put")
                  => qlog[i + 1].ret = qlog[i + 1].arg
            /\ ( /\ i + 2 <= Len(qlog)
                 /\ qlog[i + 1].op = "put"
                 /\ qlog[i + 2].op = "put" )
                  => qlog[i + 2].ret = None /\ QueueAfter(i + 2) = qlog[i + 2].pre

\* C2 witness: a queue of capacity N >= 3 took N-1 puts, refused the N-th,
\* gave up an item, took one more put and refused the next.
C2_Witness ==
    LET N == tx_queue.count IN
    /\ N >= 3
    /\ Len(qlog) = N + 3
    /\ OnlyPuts(N)
    /\ qlog[N - 1].ret # None
    /\ qlog[N].ret = None
    /\ qlog[N + 1].op = "take" /\ qlog[N + 1].ret # None
    /\ qlog[N + 2].op = "put" /\ qlog[N + 2].ret # None
    /\ qlog[N + 3].op = "put" /\ qlog[N + 3].ret = None

-----------------------------------------------------------------------------
(* run_cannellonipy and the service threads, one whole handler per step *)

RECV_BUFSIZE == 1024

SetPc(t, label) == pc' = [pc EXCEPT ![t] = label]

\* open_udp_socket: what handle.udp_pcb holds when it returns.  When bind
\* raises, line 150 has already stored the socket object.
open_udp_socket(outcome) ==
    CASE outcome = "ok" -> "bound"
      [] outcome = "bind_error" -> "unbound"
      [] outcome = "socket_error" -> "None"

\* run_cannellonipy: lines 130-145 (handle.can_pcb is set to True on line 132)
run_cannellonipy(outcome) ==
    /\ pc["run_cannellonipy"] = "not_started"
    /\ udp_pcb' = open_udp_socket(outcome)
    /\ pc' = IF udp_pcb' = "None"
             THEN [pc EXCEPT !["run_cannellonipy"] = "failed"]
             ELSE [t \in DOMAIN pc |->
                     IF t = "run_cannellonipy" THEN "returned" ELSE "running"]
    /\ UNCHANGED <<tx_queue, rx_queue, sequence_number, udp_rx_count,
                   can_in, net, sent, rx_log, qlog, prod, cons>>

\* receive_can_frames and transmit_can_frames: the body is pass
stub_returns(t) ==
    /\ t \in {"receive_can_frames", "transmit_can_frames"}
    /\ pc[t] = "running"
    /\ SetPc(t, "returned")
    /\ UNCHANGED <<tx_queue, rx_queue, sequence_number, udp_rx_count, udp_pcb,
                   can_in, net, sent, rx_log, qlog, prod, cons>>

\* a peer sends datagram d to the port the socket is bound to
PeerSend(d, max) ==
    /\ udp_pcb = "bound"
    /\ Len(net) + Len(rx_log) < max
    /\ net' = Append(net, d)
    /\ UNCHANGED <<tx_queue, rx_queue, sequence_number, udp_rx_count, udp_pcb, pc,
                   can_in, sent, rx_log, qlog, prod, cons>>

\* receive_udp_packets: one turn of the loop, lines 193-196, and lines 197-199
\* when an exception comes out of the handler
ReceiveUdp ==
    /\ pc["receive_udp_packets"] = "running"
    /\ net # <<>>
    /\ LET data == Slice(Head(net), 0, RECV_BUFSIZE)
           r == IF data = <<>>
                THEN [rx_queue |-> rx_queue, udp_rx_count |-> udp_rx_count,
                      outcome |-> "empty", seq_no |-> 0, count |-> 0,
                      frames |-> <<>>, stored |-> <<>>, raised |-> FALSE]
                ELSE handle_cannelloni_frame(rx_queue, udp_rx_count, data)
       IN  /\ net' = Tail(net)
           /\ rx_queue' = r.rx_queue
           /\ udp_rx_count' = r.udp_rx_count
           /\ rx_log' = Append(rx_log, [data |-> data, outcome |-> r.outcome,
                                        seq_no |-> r.seq_no, count |-> r.count,
                                        frames |-> r.frames, stored |-> r.stored,
                                        before |-> rx_queue])
           /\ IF r.raised
              THEN SetPc("receive_udp_packets", "returned")
              ELSE UNCHANGED pc
    /\ UNCHANGED <<tx_queue, sequence_number, udp_pcb, can_in, sent, qlog, prod, cons>>

\* receive_udp_packets: recvfrom raises (the socket fails), lines 197-199
RecvFails ==
    /\ pc["receive_udp_packets"] = "running"
    /\ SetPc("receive_udp_packets", "returned")
    /\ UNCHANGED <<tx_queue, rx_queue, sequence_number, udp_rx_count, udp_pcb,
                   can_in, net, sent, rx_log, qlog, prod, cons>>

\* the application offers the next frame: handle.tx_queue.put(frame)
AppPut ==
    /\ can_in # <<>>
    /\ can_in' = Tail(can_in)
    /\ IF put_raises(tx_queue)
       THEN /\ qlog' = Append(qlog, [op |-> "put", arg |-> Head(can_in),
                                     ret |-> [raised |-> "ZeroDivisionError"]])
            /\ UNCHANGED tx_queue
       ELSE LET r == put(tx_queue, Head(can_in))
            IN  /\ qlog' = Append(qlog, [op |-> "put", arg |-> Head(can_in),
                                         ret |-> r.ret, pre |-> tx_queue])
                /\ tx_queue' = r.q
    /\ UNCHANGED <<rx_queue, sequence_number, udp_rx_count, udp_pcb, pc,
                   net, sent, rx_log, prod, cons>>

\* lines 179-185 for the frame that take returned: the datagram goes to
\* (REMOTE_IP, REMOTE_PORT), the address the socket itself is bound to; an
\* exception ends the thread (lines 186-188)
send_frame(frame) ==
    IF encode_raises(frame, sequence_number)
    THEN /\ SetPc("transmit_udp_packets", "returned")
         /\ UNCHANGED <<sequence_number, net, sent>>
    ELSE LET data == encode(frame, sequence_number)
         IN  /\ sent' = Append(sent, [frame |-> frame, data |-> data])
             /\ net' = IF udp_pcb = "bound" THEN Append(net, data) ELSE net
             /\ sequence_number' = next_sequence_number(sequence_number)
             /\ UNCHANGED pc

\* transmit_udp_packets: one turn of the loop, lines 177-185
TransmitUdp ==
    /\ pc["transmit_udp_packets"] = "running"
    /\ LET r == take(tx_queue)
       IN  /\ tx_queue' = r.q
           /\ IF r.ret = None
              THEN UNCHANGED <<sequence_number, net, sent, pc>>
              ELSE send_frame(r.ret)
    /\ UNCHANGED <<rx_queue, udp_rx_count, udp_pcb, can_in, rx_log, qlog, prod, cons>>

-----------------------------------------------------------------------------
(* Datagrams a peer may send *)

\* lines 228-238: 020100010000007b0d48656c6c6f2c20576f726c6421
ExampleDatagram ==
    <<2, 1, 0, 1,  0, 0, 0, 123,  13,
      72, 101, 108, 108, 111, 44, 32, 87, 111, 114, 108, 100, 33>>

\* one remote-request frame, identifier 0x4000007b, with the given length byte
\* and, as the wire format has it, no payload
RtrDatagram(len_byte) == <<2, 1, 7, 1,  64, 0, 0, 123,  len_byte>>

\* two classic frames: identifier 1 with payload 10 11, identifier 2 with 12
TwoFrameDatagram ==
    <<2, 1, 3, 2,  0, 0, 0, 1,  2,  10, 11,  0, 0, 0, 2,  1,  12>>

\* one FD frame, identifier 5, length byte 0x80 | 3, payload 21 22 23
FdDatagram == <<2, 1, 4, 1,  0, 0, 0, 5,  131,  21, 22, 23>>

\* a classic frame whose payload reaches the bytes the decoder reads
LongDatagram ==
    <<2, 1, 5, 1,  0, 0, 0, 9,  8,  31, 32, 33, 34, 35, 36, 37, 38>>

ValidDatagrams ==
    {ExampleDatagram, TwoFrameDatagram, FdDatagram, LongDatagram,
     RtrDatagram(0), RtrDatagram(2), RtrDatagram(130)}

\* the datagrams sent cut off at every byte boundary
CutDatagrams == {ExampleDatagram, TwoFrameDatagram, RtrDatagram(2)}

\* d cut off after its first k bytes
Truncated(d, k) == SubSeq(d, 1, Min(k, Len(d)))

Truncations == {Truncated(d, k) : d \in CutDatagrams, k \in 0..Len(ExampleDatagram)}

\* wrong version, wrong operation code, both
BadHeaderDatagrams ==
    {<<v, o>> \o SubSeq(ExampleDatagram, 3, 22) :
        v \in {1, 2}, o \in {1, 2}} \ {ExampleDatagram}

DatagramSet == ValidDatagrams \cup Truncations \cup BadHeaderDatagrams

-----------------------------------------------------------------------------
(* The handle from construction on, with a peer sending datagrams *)

Init ==
    /\ \E n \in 0..MaxCount : InitHandle(n)
    /\ can_in = <<>>

Next ==
    \/ \E outcome \in {"ok", "bind_error", "socket_error"} : run_cannellonipy(outcome)
    \/ \E t \in Threads : stub_returns(t)
    \/ \E d \in DatagramSet : PeerSend(d, MaxRecv)
    \/ ReceiveUdp
    \/ RecvFails

Spec == Init /\ [][Next]_vars

-----------------------------------------------------------------------------
(* Claims about the decoder *)

\* how many frames a queue holds, and which, oldest first
Occupancy(q) == IF q.count = 0 THEN 0 ELSE (q.tail - q.head + q.count) % q.count

Contents(q) == [i \in 1..Occupancy(q) |-> q.frames[((q.head + i - 1) % q.count) + 1]]

\* the RTR bit of a 31-bit identifier
RtrBit(can_id) == (can_id \div CAN_RTR_FLAG) % 2 = 1

\* the frames of rx_log entry e that rx_queue accepted
Delivered(e) ==
    LET idx == {i \in 1..Len(e.frames) : e.stored[i]}
    IN  {e.frames[i] : i \in idx}

RECURSIVE WireEnd(_, _, _)
\* By the wire format: the offset at which the k-th frame counted from offset p
\* ends (sub-header, then its payload unless the RTR bit is set), or
\* Len(data) + 1 when that frame or one before it is cut off.
WireEnd(data, p, k) ==
    IF p + 5 > Len(data)
    THEN Len(data) + 1
    ELSE LET paylen == IF (data[p + 1] \div 64) % 2 = 1 THEN 0 ELSE data[p + 5] % 128
             end == p + 5 + paylen
         IN  IF end > Len(data) THEN Len(data) + 1
             ELSE IF k = 1 THEN end
             ELSE WireEnd(data, end, k - 1)

\* C4: RTR invariant.  Every frame in rx_queue whose identifier has the RTR
\* bit set has length 0, whatever the length byte of its datagram was.
C4_RtrLengthZero ==
    \A i \in 1..Occupancy(rx_queue) :
        RtrBit(Contents(rx_queue)[i].can_id) => Contents(rx_queue)[i].len = 0

\* C5: Truncation resilience.  Decoding a cut-off datagram never raises out of
\* the decoder (the receive thread stays in its loop), and the k-th frame it
\* delivers to rx_queue is a frame whose sub-header and whole declared payload
\* lie inside the received bytes.
C5_TruncationResilience ==
    \A j \in 1..Len(rx_log) :
        LET e == rx_log[j] IN
        e.data \in Truncations =>
            /\ e.outcome \in {"empty", "incomplete", "invalid", "decoded",
                              "ZeroDivisionError"}
            /\ \A k \in 1..Len(e.frames) :
                  e.stored[k] => WireEnd(e.data, 4, k) <= Len(e.data)

HelloWorld == <<72, 101, 108, 108, 111, 44, 32, 87, 111, 114, 108, 100, 33>>

\* C6: End-to-end example.  Decoding the example datagram delivers exactly one
\* frame to rx_queue: identifier 0x7b, length 13, FD flag clear, payload
\* "Hello, World!".
C6_ExampleDecodes ==
    \A j \in 1..Len(rx_log) :
        LET e == rx_log[j] IN
        (e.data = ExampleDatagram /\ \E k \in 1..Len(e.stored) : e.stored[k]) =>
            /\ Len(e.frames) = 1
            /\ e.frames[1].can_id = 123
            /\ e.frames[1].len = 13
            /\ e.frames[1].flags = 0
            /\ SubSeq(e.frames[1].data, 1, Min(13, Len(e.frames[1].data))) = HelloWorld

\* a datagram the header test must reject
HeaderRejected(d) ==
    \/ Len(d) < 4
    \/ d[1] # 2
    \/ d[2] # 1

\* C10: Header rejection leaves state unchanged.  When the datagram handled has
\* fewer than 4 bytes, or a version other than 2, or an opcode other than 1,
\* no frame is put, and rx_queue (head, tail, slots) and udp_rx_count are after
\* the call what they were before it.
C10_HeaderRejection ==
    [][ ( /\ Len(rx_log') = Len(rx_log) + 1
          /\ HeaderRejected(rx_log'[Len(rx_log')].data) )
        => /\ rx_queue' = rx_queue
           /\ udp_rx_count' = udp_rx_count
           /\ rx_log'[Len(rx_log')].frames = <<>> ]_vars

\* C10 witness: a datagram with version 2 but a wrong opcode, and one that is
\* too short, have been handled by a handle whose queue has room.
C10_Witness ==
    /\ rx_queue.count >= 2
    /\ rx_log # <<>>
    /\ Len(rx_log[1].data) >= 4
    /\ rx_log[1].data[1] = 2
    /\ rx_log[1].data[2] = 2
    /\ rx_log[1].outcome = "invalid"

-----------------------------------------------------------------------------
(* The receive thread fed malformed and well-formed datagrams in turn *)

\* too short, wrong version, a frame count with nothing behind it, the example
\* cut off inside its sub-header and inside its payload, a sub-header of noise
MalformedDatagrams ==
    {<<2, 1>>,
     <<1, 1, 0, 1,  0, 0, 0, 123,  0>>,
     <<2, 1, 0, 3>>,
     Truncated(ExampleDatagram, 7),
     Truncated(ExampleDatagram, 12),
     <<2, 1, 0, 2,  127, 127, 127, 127,  127>>}

WellFormedDatagrams == {ExampleDatagram, TwoFrameDatagram, RtrDatagram(0)}

InitRecover ==
    /\ \E n \in 0..MaxCount : InitRunning(n)
    /\ can_in = <<>>

NextRecover ==
    \/ \E d \in MalformedDatagrams \cup WellFormedDatagrams : PeerSend(d, MaxRecover)
    \/ ReceiveUdp
    \/ RecvFails

SpecRecover == InitRecover /\ [][NextRecover]_vars

\* the j-th datagram handled was well-formed and followed a malformed one
AfterMalformed(j) ==
    /\ rx_log[j].data \in WellFormedDatagrams
    /\ \E i \in 1..(j - 1) : rx_log[i].data \in MalformedDatagrams

\* the k-th put of entry e found room in the queue
HadRoom(e, k) == Occupancy(e.before) + k <= e.before.count - 1

-----------------------------------------------------------------------------
(* Frames sent by transmit_udp_packets come back to the handle's own socket *)

\* classic frames of length 1, 8 and 0, an FD frame of length 12 (its data
\* replaced by a 12-byte array), a remote-request frame
LoopFrames ==
    {[can_id |-> 123, len |-> 1, flags |-> 0, data |-> <<65, 0, 0, 0, 0, 0, 0, 0>>],
     [can_id |-> 1, len |-> 8, flags |-> 0, data |-> <<1, 2, 3, 4, 5, 6, 7, 8>>],
     [can_id |-> 2, len |-> 0, flags |-> 0, data |-> Zeros(FRAME_DATA_SIZE)],
     [can_id |-> 5, len |-> 12, flags |-> CANFD_FRAME,
      data |-> <<1, 2, 3, 4, 5, 6, 7, 8, 9, 10, 11, 12>>],
     [can_id |-> CAN_RTR_FLAG + 123, len |-> 0, flags |-> 0,
      data |-> Zeros(FRAME_DATA_SIZE)]}

InitLoop ==
    /\ \E n \in 1..MaxCount : InitRunning(n)
    /\ \E k \in 1..MaxOffer : can_in \in [1..k -> LoopFrames]

NextLoop ==
    \/ AppPut
    \/ TransmitUdp
    \/ ReceiveUdp

SpecLoop == InitLoop /\ [][NextLoop]_vars

\* C1: Round-trip.  The j-th datagram decoded is the j-th datagram encoded
\* (from frame F with sequence number j-1 mod 256), and decoding it yields that
\* sequence number and exactly the frame F: same identifier, length, FD flag
\* and payload bytes.
C1_RoundTrip ==
    \A j \in 1..Len(rx_log) :
        LET e == rx_log[j]
            F == sent[j].frame
        IN  /\ e.data = sent[j].data
            /\ e.seq_no = (j - 1) % 256
            /\ Len(e.frames) = 1
            /\ e.frames[1].can_id = F.can_id
            /\ e.frames[1].len = F.len
            /\ e.frames[1].flags = F.flags
            /\ SubSeq(e.frames[1].data, 1, Min(F.len, Len(e.frames[1].data)))
                  = SubSeq(F.data, 1, F.len)

-----------------------------------------------------------------------------
(* The transmit thread draining a long backlog *)

SeqFrame == [can_id |-> 123, len |-> 1, flags |-> 0, data |-> <<65, 0, 0, 0, 0, 0, 0, 0>>]

\* the queue FramesQueue(k + 1) after k calls of put(SeqFrame), all of which
\* succeed: slots 0..k-1 hold the frames, tail is k
Backlog(k) ==
    [head |-> 0, tail |-> k, count |-> k + 1,
     frames |-> [i \in 1..(k + 1) |-> IF i <= k THEN SeqFrame ELSE CanfdFrame]]

\* a handle with can_buf_size = MaxSends + 1 whose application has queued
\* MaxSends frames before the transmit thread took the first
InitSeq ==
    /\ tx_queue = Backlog(MaxSends)
    /\ rx_queue = FramesQueue(MaxSends + 1)
    /\ sequence_number = 0
    /\ udp_rx_count = 0
    /\ udp_pcb = "bound"
    /\ pc = [t \in Threads \cup {"run_cannellonipy"} |->
               IF t \in {"receive_udp_packets", "transmit_udp_packets"}
               THEN "running" ELSE "returned"]
    /\ can_in = <<>>
    /\ net = <<>>
    /\ sent = <<>>
    /\ rx_log = <<>>
    /\ qlog = <<>>
    /\ prod = IdleThread
    /\ cons = IdleThread

NextSeq == TransmitUdp

SpecSeq == InitSeq /\ [][NextSeq]_vars

\* the sequence number stamped on the i-th datagram sent
Stamp(i) == sent[i].data[3]

\* C7: Sequence numbering.  The sequence number stays in 0..255; the first
\* datagram carries the starting value 0, each datagram carries the number
\* that follows its predecessor's modulo 256, the handle's number is the one
\* that follows the last stamp; and after 256 sends it is the starting value.
C7_SequenceNumbering ==
    /\ sequence_number \in 0..255
    /\ sent # <<>> => Stamp(1) = 0
    /\ \A i \in 1..(Len(sent) - 1) : Stamp(i + 1) = (Stamp(i) + 1) % 256
    /\ sent # <<>> => sequence_number = (Stamp(Len(sent)) + 1) % 256
    /\ Len(sent) = 256 => sequence_number = 0

\* C7 witness: 257 datagrams were sent; the 256th carried 255 and the 257th 0.
C7_Witness ==
    /\ Len(sent) = 257
    /\ Stamp(256) = 255
    /\ Stamp(257) = 0
    /\ sequence_number = 1

-----------------------------------------------------------------------------
(* A burst of frames offered to a small tx_queue *)

BurstFrame(i) == [can_id |-> i, len |-> 2, flags |-> 0,
                  data |-> <<i, i + 100, 0, 0, 0, 0, 0, 0>>]

InitBurst ==
    /\ InitRunning(BurstCount)
    /\ can_in = [i \in 1..BurstFrames |-> BurstFrame(i)]

NextBurst ==
    \/ AppPut
    \/ TransmitUdp

SpecBurst == InitBurst /\ [][NextBurst]_vars

\* how many offered frames put refused
Dropped == Cardinality({i \in 1..Len(qlog) : qlog[i].ret = None})

\* all frames were offered before the transmit thread sent any
BurstOver == can_in = <<>> /\ sent = <<>>

\* every datagram sent carries one of the offered frames, unchanged, and no
\* frame was sent twice
NoDuplicateNoCorruption ==
    /\ \A i \in 1..Len(sent) :
          /\ \E k \in 1..BurstFrames : sent[i].frame = BurstFrame(k)
          /\ Len(sent[i].data) = 9 + sent[i].frame.len
          /\ sent[i].data[4] = 1
          /\ unpack_I(SubSeq(sent[i].data, 5, 8)) = sent[i].frame.can_id
          /\ sent[i].data[9] = sent[i].frame.len
          /\ SubSeq(sent[i].data, 10, Len(sent[i].data))
                = SubSeq(sent[i].frame.data, 1, sent[i].frame.len)
    /\ \A i, j \in 1..Len(sent) : i # j => sent[i].frame # sent[j].frame

\* C8 as stated: when the burst is over exactly BurstCount (4) frames are
\* queued and at least BurstFrames - BurstCount (6) were dropped; no frame is
\* duplicated or corrupted.
C8_BackpressureAsStated ==
    /\ BurstOver =>
          /\ Occupancy(tx_queue) = BurstCount
          /\ Dropped >= BurstFrames - BurstCount
    /\ NoDuplicateNoCorruption

\* C8 amended: never more than BurstCount - 1 (3) frames are queued at once;
\* when the burst is over exactly BurstCount - 1 are queued and the other
\* BurstFrames - (BurstCount - 1) (7, so at least 6) were dropped; every
\* frame accepted is queued or was sent; no frame is duplicated or corrupted.
C8_BackpressureAmended ==
    /\ Occupancy(tx_queue) <= BurstCount - 1
    /\ BurstOver =>
          /\ Occupancy(tx_queue) = BurstCount - 1
          /\ Dropped = BurstFrames - (BurstCount - 1)
          /\ Dropped >= BurstFrames - BurstCount
    /\ Len(qlog) - Dropped = Occupancy(tx_queue) + Len(sent)
    /\ NoDuplicateNoCorruption

\* C8 witness: all 10 frames were offered to the queue of capacity 4 before the
\* transmit thread took any; 3 of them are queued and 7 were dropped.
C8_Witness ==
    /\ BurstOver
    /\ Occupancy(tx_queue) = BurstCount - 1
    /\ Dropped = BurstFrames - BurstCount + 1

-----------------------------------------------------------------------------
(* One thread in tx_queue.put and one in tx_queue.take, a step for every     *)
(* read and write of head, tail and the slots.  The labels name the line.    *)

\* the application calls handle.tx_queue.put(frame)
PutCall ==
    /\ prod.pc = "idle"
    /\ can_in # <<>>
    /\ prod' = [pc |-> "put_33_tail", frame |-> Head(can_in)]
    /\ can_in' = Tail(can_in)
    /\ UNCHANGED <<tx_queue, rx_queue, sequence_number, udp_rx_count, udp_pcb, pc,
                   net, sent, rx_log, qlog, cons>>

\* what only the thread inside put changes
PutStep(label, t) ==
    /\ prod' = [pc |-> label, frame |-> prod.frame, t |-> t]
    /\ UNCHANGED <<tx_queue, rx_queue, sequence_number, udp_rx_count, udp_pcb, pc,
                   can_in, net, sent, rx_log, qlog, cons>>

\* line 33 reads self.tail
PutReadTail ==
    /\ prod.pc = "put_33_tail"
    /\ PutStep("put_33_head", tx_queue.tail)

\* line 33 reads self.head and compares; line 34 returns None
PutReadHead ==
    /\ prod.pc = "put_33_head"
    /\ IF put_full([tx_queue EXCEPT !.tail = prod.t])
       THEN /\ prod' = IdleThread
            /\ qlog' = Append(qlog, [op |-> "put", arg |-> prod.frame, ret |-> None])
            /\ UNCHANGED <<tx_queue, rx_queue, sequence_number, udp_rx_count,
                           udp_pcb, pc, can_in, net, sent, rx_log, cons>>
       ELSE PutStep("put_35_tail", prod.t)

\* line 35 reads self.tail
PutStoreReadTail ==
    /\ prod.pc = "put_35_tail"
    /\ PutStep("put_35_store", tx_queue.tail)

\* line 35 writes the slot
PutStore ==
    /\ prod.pc = "put_35_store"
    /\ tx_queue' = [tx_queue EXCEPT !.frames[prod.t + 1] = prod.frame]
    /\ prod' = [prod EXCEPT !.pc = "put_36_tail"]
    /\ UNCHANGED <<rx_queue, sequence_number, udp_rx_count, udp_pcb, pc,
                   can_in, net, sent, rx_log, qlog, cons>>

\* line 36 reads self.tail
PutAdvanceReadTail ==
    /\ prod.pc = "put_36_tail"
    /\ PutStep("put_36_store", tx_queue.tail)

\* line 36 writes self.tail; line 37 returns the frame
PutAdvance ==
    /\ prod.pc = "put_36_store"
    /\ tx_queue' = [tx_queue EXCEPT !.tail = NextIndex(prod.t, tx_queue.count)]
    /\ qlog' = Append(qlog, [op |-> "put", arg |-> prod.frame, ret |-> prod.frame])
    /\ prod' = IdleThread
    /\ UNCHANGED <<rx_queue, sequence_number, udp_rx_count, udp_pcb, pc,
                   can_in, net, sent, rx_log, cons>>

\* line 177: transmit_udp_packets calls handle.tx_queue.take()
TakeCall ==
    /\ pc["transmit_udp_packets"] = "running"
    /\ cons.pc = "idle"
    /\ cons' = [pc |-> "take_40_head"]
    /\ UNCHANGED <<tx_queue, rx_queue, sequence_number, udp_rx_count, udp_pcb, pc,
                   can_in, net, sent, rx_log, qlog, prod>>

\* what only the thread inside take changes
TakeStep(label, h, frame) ==
    /\ cons' = [pc |-> label, h |-> h, frame |-> frame]
    /\ UNCHANGED <<tx_queue, rx_queue, sequence_number, udp_rx_count, udp_pcb, pc,
                   can_in, net, sent, rx_log, qlog, prod>>

\* line 40 reads self.head
TakeReadHead ==
    /\ cons.pc = "take_40_head"
    /\ TakeStep("take_40_tail", tx_queue.head, None)

\* line 40 reads self.tail and compares; line 41 returns None, and line 178
\* sends the thread round its loop
TakeReadTail ==
    /\ cons.pc = "take_40_tail"
    /\ IF is_empty([tx_queue EXCEPT !.head = cons.h])
       THEN TakeStep("idle", cons.h, None)
       ELSE TakeStep("take_42_head", cons.h, None)

\* line 42 reads self.head
TakeLoadReadHead ==
    /\ cons.pc = "take_42_head"
    /\ TakeStep("take_42_load", tx_queue.head, None)

\* line 42 reads the slot
TakeLoad ==
    /\ cons.pc = "take_42_load"
    /\ TakeStep("take_43_head", cons.h, tx_queue.frames[cons.h + 1])

\* line 43 reads self.head
TakeAdvanceReadHead ==
    /\ cons.pc = "take_43_head"
    /\ TakeStep("take_43_store", tx_queue.head, cons.frame)

\* line 43 writes self.head; line 44 returns the frame, and lines 178-185 send it
TakeAdvance ==
    /\ cons.pc = "take_43_store"
    /\ tx_queue' = [tx_queue EXCEPT !.head = NextIndex(cons.h, tx_queue.count)]
    /\ send_frame(cons.frame)
    /\ cons' = IdleThread
    /\ UNCHANGED <<rx_queue, udp_rx_count, udp_pcb, can_in, rx_log, qlog, prod>>

InitSPSC ==
    \E n \in 1..MaxCount :
        /\ InitRunning(n)
        /\ can_in = [i \in 1..(n + 2) |-> BurstFrame(i)]

NextSPSC ==
    \/ PutCall
    \/ PutReadTail
    \/ PutReadHead
    \/ PutStoreReadTail
    \/ PutStore
    \/ PutAdvanceReadTail
    \/ PutAdvance
    \/ TakeCall
    \/ TakeReadHead
    \/ TakeReadTail
    \/ TakeLoadReadHead
    \/ TakeLoad
    \/ TakeAdvanceReadHead
    \/ TakeAdvance

SpecSPSC == InitSPSC /\ [][NextSPSC]_vars

\* the frames whose put succeeded, and the frames take returned, in order
AcceptedLog == SelectSeq(qlog, LAMBDA e : e.op = "put" /\ e.ret # None)

Accepted == [i \in 1..Len(AcceptedLog) |-> AcceptedLog[i].arg]

Taken == [i \in 1..Len(sent) |-> sent[i].frame]

\* C3: FIFO without overwrite under one producer and one consumer.  In every
\* interleaving the frames returned by take are a prefix of the frames whose
\* put succeeded, in the same order (none twice, none that was not accepted),
\* and the accepted frames not yet taken are exactly the frames the queue
\* holds from head to tail, in order (none overwritten, none lost).
C3_FifoNoOverwrite ==
    /\ Len(Taken) <= Len(Accepted)
    /\ \A i \in 1..Len(Taken) : Taken[i] = Accepted[i]
    /\ Contents(tx_queue) = SubSeq(Accepted, Len(Taken) + 1, Len(Accepted))

\* C3 witness: in a queue of 3 slots the tail has wrapped round (two frames
\* went through, a put was refused, a later put succeeded), and the producer is
\* about to write a slot while the consumer is about to read one.
C3_Witness ==
    /\ tx_queue.count = 3
    /\ Len(sent) >= 2
    /\ \E i \in 1..Len(qlog) : qlog[i].ret = None
    /\ prod.pc = "put_35_store"
    /\ cons.pc = "take_42_load"

-----------------------------------------------------------------------------
(* More claims about the queue, over the direct calls of SpecQueue *)

StoredItems ==
    Cardinality({i \in 1..Len(qlog) : qlog[i].op = "put" /\ qlog[i].ret # None})
      - Cardinality({i \in 1..Len(qlog) : qlog[i].op = "take" /\ qlog[i].ret # None})

\* C18: Ring index invariant.  For a queue of capacity N >= 2, after any
\* calls of put, take and peek: head and tail are in 0..N-1; the number of
\* stored items is (tail - head) mod N and at most N-1; the queue is empty
\* exactly when head = tail and full exactly when (tail + 1) mod N = head;
\* and the capacity is the one the queue was built with.
C18_RingIndex ==
    LET N == tx_queue.count IN
    N >= 2 =>
        /\ tx_queue.head \in 0..(N - 1)
        /\ tx_queue.tail \in 0..(N - 1)
        /\ StoredItems = (tx_queue.tail - tx_queue.head + N) % N
        /\ StoredItems <= N - 1
        /\ StoredItems = 0 <=> tx_queue.head = tx_queue.tail
        /\ StoredItems = N - 1 <=> (tx_queue.tail + 1) % N = tx_queue.head
        /\ Len(tx_queue.frames) = N
        /\ \A i \in 1..Len(qlog) : qlog[i].pre.count = N

\* C18 witness: a queue of 3 slots is full with tail wrapped round behind
\* head, after puts, takes and a peek.
C18_Witness ==
    /\ tx_queue.count = 3
    /\ tx_queue.tail < tx_queue.head
    /\ StoredItems = 2
    /\ \E i \in 1..Len(qlog) : qlog[i].op = "peek"

-----------------------------------------------------------------------------
(* More claims about the decoder and about start-up, over Spec *)

\* the bound on a frame's length that its FD flag implies
WithinLengthBound(frame) ==
    IF BitAnd(frame.flags, CANFD_FRAME) = 0 THEN frame.len <= 8 ELSE frame.len <= 64

\* C12: Length bound invariant.  Every frame held in rx_queue or tx_queue has
\* length at most 8 when its FD flag is clear and at most 64 when it is set.
C12_LengthBound ==
    /\ \A i \in 1..Occupancy(rx_queue) : WithinLengthBound(Contents(rx_queue)[i])
    /\ \A i \in 1..Occupancy(tx_queue) : WithinLengthBound(Contents(tx_queue)[i])

\* By the wire format: the offset at which the sub-header of the k-th frame
\* begins, right after the payload of the frame before it
WireStart(data, k) == IF k = 1 THEN 4 ELSE WireEnd(data, 4, k - 1)

\* By the wire format: the k-th frame serialized in the datagram (its payload
\* is empty when the RTR bit is set)
WireFrame(data, k) ==
    LET p == WireStart(data, k)
        can_id == unpack_I(SubSeq(data, p + 1, p + 4))
        len == data[p + 5] % 128
    IN  [can_id |-> can_id,
         len |-> len,
         flags |-> (data[p + 5] \div 128) * 128,
         payload |-> IF RtrBit(can_id) THEN <<>> ELSE SubSeq(data, p + 6, p + 5 + len)]

\* C14: Multi-frame decoding.  For a well-formed datagram that declares k
\* frames, the decoder passes k frames to rx_queue in wire order, the i-th
\* with the identifier, length, FD flag and payload serialized for it (its
\* sub-header read right after the payload of frame i-1), and each is stored
\* when rx_queue has room.
C14_MultiFrameDecoding ==
    \A j \in 1..Len(rx_log) :
        LET e == rx_log[j] IN
        (e.data \in ValidDatagrams /\ e.before.count > 0) =>
            /\ Len(e.frames) = e.data[4]
            /\ \A k \in 1..Len(e.frames) :
                  LET w == WireFrame(e.data, k)
                      f == e.frames[k]
                  IN  /\ f.can_id = w.can_id
                      /\ f.len = w.len
                      /\ f.flags = w.flags
                      /\ ~RtrBit(w.can_id) =>
                            SubSeq(f.data, 1, Min(w.len, Len(f.data))) = w.payload
                      /\ HadRoom(e, k) => e.stored[k]

\* C20: Start-up gating.  Once run_cannellonipy has been called, a stage
\* thread has been started only if the UDP socket was created and bound; when
\* creating or binding failed, run_cannellonipy has reported the failure and
\* no stage thread was started.
C20_StartupGating ==
    (pc["run_cannellonipy"] # "not_started" /\ udp_pcb # "bound") =>
        /\ pc["run_cannellonipy"] = "failed"
        /\ \A t \in Threads : pc[t] = "not_started"

-----------------------------------------------------------------------------
(* The transmit thread sending remote-request frames *)

\* a remote-request frame with length 0 and one with length 2 (as the decoder
\* delivers for length byte 2), a classic frame with length 2
EncodeFrames ==
    {[can_id |-> CAN_RTR_FLAG + 123, len |-> 0, flags |-> 0, data |-> Zeros(FRAME_DATA_SIZE)],
     [can_id |-> CAN_RTR_FLAG + 124, len |-> 2, flags |-> 0,
      data |-> <<7, 8, 0, 0, 0, 0, 0, 0>>],
     [can_id |-> 125, len |-> 2, flags |-> 0, data |-> <<9, 10, 0, 0, 0, 0, 0, 0>>]}

InitEncode ==
    /\ \E n \in 1..MaxCount : InitRunning(n)
    /\ \E k \in 1..MaxOffer : can_in \in [1..k -> EncodeFrames]

NextEncode ==
    \/ AppPut
    \/ TransmitUdp

SpecEncode == InitEncode /\ [][NextEncode]_vars

\* C15: RTR frames are encoded without payload.  Every datagram sent for a
\* frame whose identifier has the RTR bit set is 9 bytes long: the 4-byte
\* header and the 5-byte sub-header, no payload, whatever the frame's len is.
C15_RtrEncodedWithoutPayload ==
    \A i \in 1..Len(sent) :
        RtrBit(sent[i].frame.can_id) =>
            Len(sent[i].data) = CANNELLONI_DATA_PACKET_BASE_SIZE + CANNELLONI_FRAME_BASE_SIZE

-----------------------------------------------------------------------------
(* The application polling rx_queue while the receive thread fills it.  cons *)
(* is the thread inside get_received_can_frames, one call of take per step.  *)

\* the application calls handle.get_received_can_frames(): line 112
GetCall ==
    /\ cons.pc = "idle"
    /\ Cardinality({i \in 1..Len(qlog) : qlog[i].op = "get_received_can_frames"}) < MaxPolls
    /\ cons' = [pc |-> "get_114", frames |-> <<>>, discarded |-> <<>>]
    /\ UNCHANGED <<tx_queue, rx_queue, sequence_number, udp_rx_count, udp_pcb, pc,
                   can_in, net, sent, rx_log, qlog, prod>>

\* lines 114-117: one turn of the loop of get_received_can_frames; when take
\* returns None the loop ends and line 118 calls clear_received_can_frames
GetTake ==
    /\ cons.pc = "get_114"
    /\ LET r == take(rx_queue)
       IN  /\ rx_queue' = r.q
           /\ cons' = IF r.ret = None
                      THEN [cons EXCEPT !.pc = "clear_123"]
                      ELSE [cons EXCEPT !.frames = Append(@, r.ret)]
    /\ UNCHANGED <<tx_queue, sequence_number, udp_rx_count, udp_pcb, pc,
                   can_in, net, sent, rx_log, qlog, prod>>

\* lines 123-125: one turn of the loop of clear_received_can_frames, which
\* drops the frame take returned; when take returns None it returns, and
\* line 119 returns the list
ClearTake ==
    /\ cons.pc = "clear_123"
    /\ LET r == take(rx_queue)
       IN  /\ rx_queue' = r.q
           /\ IF r.ret = None
              THEN /\ qlog' = Append(qlog, [op |-> "get_received_can_frames",
                                           arg |-> None,
                                           ret |-> cons.frames,
                                           discarded |-> cons.discarded])
                   /\ cons' = IdleThread
              ELSE /\ cons' = [cons EXCEPT !.discarded = Append(@, r.ret)]
                   /\ UNCHANGED qlog
    /\ UNCHANGED <<tx_queue, sequence_number, udp_rx_count, udp_pcb, pc,
                   can_in, net, sent, rx_log, prod>>

InitPoll ==
    /\ \E n \in 1..MaxCount : InitRunning(n)
    /\ can_in = <<>>

NextPoll ==
    \/ \E d \in WellFormedDatagrams : PeerSend(d, MaxRecover)
    \/ ReceiveUdp
    \/ GetCall
    \/ GetTake
    \/ ClearTake

SpecPoll == InitPoll /\ [][NextPoll]_vars

RECURSIVE StoredOf(_, _)
\* the frames of one handled datagram that rx_queue.put accepted, from the
\* k-th on, in the order they were put
StoredOf(e, k) ==
    IF k > Len(e.frames) THEN <<>>
    ELSE (IF e.stored[k] THEN <<e.frames[k]>> ELSE <<>>) \o StoredOf(e, k + 1)

RECURSIVE AcceptedByRx(_)
\* every frame rx_queue accepted during the first n handled datagrams
AcceptedByRx(n) ==
    IF n = 0 THEN <<>> ELSE AcceptedByRx(n - 1) \o StoredOf(rx_log[n], 1)

RECURSIVE ReturnedToCaller(_)
\* the lists the first n completed calls returned, one after the other
ReturnedToCaller(n) ==
    IF n = 0 THEN <<>> ELSE ReturnedToCaller(n - 1) \o qlog[n].ret

\* C19: No loss in get_received_can_frames.  No call has removed a frame from
\* rx_queue without returning it; and the frames returned so far, then those
\* the call in progress holds, then those still in rx_queue, are the frames
\* rx_queue accepted, in the order it accepted them.
C19_NoLossInGet ==
    /\ \A i \in 1..Len(qlog) : qlog[i].discarded = <<>>
    /\ cons.pc # "idle" => cons.discarded = <<>>
    /\ ReturnedToCaller(Len(qlog))
          \o (IF cons.pc = "idle" THEN <<>> ELSE cons.frames)
          \o Contents(rx_queue)
        = AcceptedByRx(Len(rx_log))

-----------------------------------------------------------------------------
(* The whole session: start-up, the four threads under fair scheduling, the *)
(* application, a peer, and failures of the socket                          *)

\* transmit_udp_packets: one turn of the loop in which sendto raises (the
\* socket fails): the frame taken on line 177 is gone, lines 186-188 end the
\* thread
SendFails ==
    /\ pc["transmit_udp_packets"] = "running"
    /\ ~is_empty(tx_queue)
    /\ tx_queue' = take(tx_queue).q
    /\ SetPc("transmit_udp_packets", "returned")
    /\ UNCHANGED <<rx_queue, sequence_number, udp_rx_count, udp_pcb,
                   can_in, net, sent, rx_log, qlog, prod, cons>>

\* the caller of run_cannellonipy, after it has returned, wants the session to
\* stop.  The source gives it nothing to set: the wish is state of the caller
\* only, and no thread reads it (the loops of lines 176 and 192 are
\* while True).
RequestStop ==
    /\ pc["run_cannellonipy"] = "returned"
    /\ SetPc("run_cannellonipy", "stop_requested")
    /\ UNCHANGED <<tx_queue, rx_queue, sequence_number, udp_rx_count, udp_pcb,
                   can_in, net, sent, rx_log, qlog, prod, cons>>

\* what the peer sends in this scenario: one classic frame, identifier 1,
\* payload 41
SessionDatagrams == {<<2, 1, 0, 1,  0, 0, 0, 1,  1,  65>>}

InitSession ==
    /\ \E n \in 1..MaxCount : InitHandle(n)
    /\ \E k \in 0..1 : can_in = [i \in 1..k |-> BurstFrame(i)]

NextSession ==
    \/ \E outcome \in {"ok", "bind_error", "socket_error"} : run_cannellonipy(outcome)
    \/ \E t \in Threads : stub_returns(t)
    \/ \E d \in SessionDatagrams : PeerSend(d, MaxRecv)
    \/ ReceiveUdp
    \/ RecvFails
    \/ AppPut
    \/ TransmitUdp
    \/ SendFails
    \/ RequestStop

\* every started thread gets to run: the interpreter switches between the
\* threads of threading.Thread at regular intervals
FairSession ==
    /\ WF_vars(stub_returns("receive_can_frames"))
    /\ WF_vars(stub_returns("transmit_can_frames"))
    /\ WF_vars(ReceiveUdp)
    /\ WF_vars(TransmitUdp)

SpecSession == InitSession /\ [][NextSession]_vars /\ FairSession

StopRequested == pc["run_cannellonipy"] = "stop_requested"

\* C11: Prompt stop.  Once the stop signal is set, a stage that goes through
\* its loop observes it and leaves the loop: no stage sends a datagram or
\* handles one and is still in its loop afterwards.
C11_PromptStop ==
    [][ StopRequested =>
          /\ sent' # sent => pc'["transmit_udp_packets"] # "running"
          /\ rx_log' # rx_log => pc'["receive_udp_packets"] # "running" ]_vars

\* the session runs: nobody asked it to stop and no UDP stage has ended
SessionRuns ==
    /\ ~StopRequested
    /\ pc["receive_udp_packets"] = "running"
    /\ pc["transmit_udp_packets"] = "running"

\* C16: UDP-to-CAN delivery.  While the session runs, the first frame put
\* into rx_queue (it lies at index 0, where head starts) is eventually taken
\* out of it by the CAN-transmit stage, the only stage that drains rx_queue,
\* unless the session ends first.
C16_UdpToCanDelivery ==
    (SessionRuns /\ Occupancy(rx_queue) > 0 /\ rx_queue.head = 0)
        ~> (rx_queue.head # 0 \/ ~SessionRuns)

\* C17: Fatal transport error shuts the session down.  After the UDP-receive
\* or the UDP-transmit stage has ended on a failed socket call, eventually no
\* stage is running.
C17_FatalErrorShutsDown ==
    (pc["receive_udp_packets"] = "returned" \/ pc["transmit_udp_packets"] = "returned")
        ~> (\A u \in Threads : pc[u] # "running")

====
